---- MODULE Spec2Model ----
(***************************************************************************)
(* carelink-bridge: the data-acquisition client (CareLinkClient.fetch and  *)
(* the calls it makes) and the poll loop that drives it.                   *)
(*                                                                         *)
(* One fetch() is a sequence of attempts.  Every await of the source is a  *)
(* step of the model: an outbound call is one action that draws the raw    *)
(* server outcome, passes it through the axios interceptors and, when the  *)
(* call fails, runs the catch block of fetch() up to its next await.       *)
(***************************************************************************)
EXTENDS Integers, Sequences, FiniteSets, TLC

VARIABLES
    proxies,        \* ProxyRotator: the proxy list, <<1, ..., n>>
    currentIndex,   \* ProxyRotator: rotation index (0-based)
    retryCount,     \* ProxyRotator: rotations consumed in this fetch()
    httpsAgent,     \* axios defaults: the installed proxy, 0 = none
    logindata,      \* logindata.json: "absent", "valid" or "expired"
    authorization,  \* axios default Authorization header: "none" or "bearer"
    requestCount,   \* CareLinkClient.requestCount
    pc,             \* where the single worker is
    i,              \* fetch(): loop index
    maxRetry,       \* fetch(): const maxRetry
    role,           \* getConnectData(): const role
    pending,        \* parameters/body built for the request about to be sent
    result,         \* what fetch() returned or threw
    lastErr,        \* the error caught by the latest failed attempt
    sleepSecs,      \* duration of the sleep in progress (or the last one)
    attempts,       \* history: attempts started in this fetch()
    audit,          \* whether the history variable `sent` is kept
    sent,           \* history: requests put on the wire in this fetch(),
                    \* over all its attempts (kept when audit is on)
    calls,          \* history: requests sent in this attempt, in order
    tryNextCalls,   \* history: tryNext() calls in this fetch()
    backoffs,       \* history: exponential-backoff sleeps in this fetch()
    onlyErr,        \* history: the error every failed attempt of this
                    \* fetch() ended with; NoErr before a failure, Mixed
                    \* once two attempts failed differently
    failedAt,       \* history: "me" while every failed attempt of this
                    \* fetch() failed in getCurrentRole(), "other" once
                    \* one failed elsewhere, "none" before a failure
    refreshed,      \* history: how this attempt's refresh exchange ended
    heard,          \* history: the answer the attempt is acting on (of
                    \* the identity call of getCurrentRole(), the
                    \* linked-patients call or the monitor-data call), from
                    \* its return to the attempt's next step; Unasked
                    \* otherwise
    latest,         \* the portal: time of its newest reading, 0 = none
    entries,        \* requestLoop(): transformed.entries
    devicestatus,   \* requestLoop(): transformed.devicestatus
    newSgvs,        \* requestLoop(): const newSgvs
    newDeviceStatuses,  \* requestLoop(): const newDeviceStatuses
    sgvWatermark,   \* filterSgvs: the watermark of the closure, 0 = none
    statusWatermark,    \* filterDeviceStatus: the same
    delivered,      \* history: per endpoint, the keys of the records an
                    \* upload has delivered
    failed,         \* history: per endpoint, the keys of the records whose
                    \* upload failed
    handed,         \* history: what the rotator returned to each call
                    \* since the latest resetRetries(), in order, 0 = none;
                    \* the calls are the tryNext() of fetch()
    handedBefore,   \* history: the last proxy the rotator handed out before
                    \* that, the getNext() of the constructor included;
                    \* 0 = none
    handled         \* history: what the body of requestLoop() made of the
                    \* result of fetch() in this cycle: "warned" (no marker),
                    \* "processed", "caught" (an error), "none" before

vars == <<proxies, currentIndex, retryCount, httpsAgent, logindata,
          authorization, requestCount, pc, i, maxRetry, role, pending, result,
          lastErr, sleepSecs, attempts, audit, sent, calls, tryNextCalls, backoffs,
          onlyErr, failedAt, refreshed, heard, latest, entries, devicestatus,
          newSgvs, newDeviceStatuses, sgvWatermark, statusWatermark, delivered,
          failed, handed, handedBefore, handled>>

\* what the poll loop and its collaborators hold
loopVars == <<latest, entries, devicestatus, newSgvs, newDeviceStatuses,
              sgvWatermark, statusWatermark, delivered, failed, handled>>

\* what the client, its rotator and the credential file hold, pc, result and
\* the history of an attempt excepted
clientVars == <<proxies, handedBefore, audit, currentIndex, handed, retryCount, httpsAgent, logindata,
                authorization, requestCount>>

(***************************************************************************)
(* Bounds of the model.                                                    *)
(***************************************************************************)
MaxProxies == 2
MaxRotations == 3
MaxReading == 3
SgvLimit == 2
MaxItems == 3
MaxListed == 4
MaxCalls == 12

(***************************************************************************)
(* Program constants.                                                      *)
(***************************************************************************)
MAX_REQUESTS_PER_FETCH == 30
MaxRetryWithProxies == 10
MaxRetryWithoutProxies == 1
ProxyPauseSecs == 1

ProxyErrorStatuses == {400, 403, 407, 502, 503}
NetworkErrorCodes ==
    {"ECONNREFUSED", "ETIMEDOUT", "ECONNRESET", "ENOTFOUND", "EPROTO",
     "ERR_SOCKET_BAD_PORT"}

(***************************************************************************)
(* Strings the code inspects are sequences of characters.                  *)
(***************************************************************************)
S_CARE_PARTNER == <<"C","A","R","E","_","P","A","R","T","N","E","R">>
S_CARE_PARTNER_OUS == S_CARE_PARTNER \o <<"_","O","U","S">>
S_care_partner == <<"c","a","r","e","_","p","a","r","t","n","e","r">>
S_Care_Partner_ous == <<"C","a","r","e","_","P","a","r","t","n","e","r","_","o","u","s">>
S_PATIENT == <<"P","A","T","I","E","N","T">>
S_BLE == <<"B","L","E">>
S_MINIMED == <<"M","I","N","I","M","E","D">>
S_SIMPLERA == <<"S","I","M","P","L","E","R","A">>
S_MINIMED780G_BLE == S_MINIMED \o <<"7","8","0","G","-">> \o S_BLE
S_GUARDIAN == <<"G","U","A","R","D","I","A","N">>

UpperChar(c) ==
    CASE c = "a" -> "A" [] c = "c" -> "C" [] c = "e" -> "E" [] c = "n" -> "N"
      [] c = "o" -> "O" [] c = "p" -> "P" [] c = "r" -> "R" [] c = "s" -> "S"
      [] c = "t" -> "T" [] c = "u" -> "U" [] OTHER -> c

toUpperCase(s) == [k \in 1..Len(s) |-> UpperChar(s[k])]

includes(s, sub) ==
    \E k \in 0..(Len(s) - Len(sub)) : SubSeq(s, k + 1, k + Len(sub)) = sub

(***************************************************************************)
(* Errors.  kind names the thrown Error by its message; an axios error     *)
(* carries the response status (0 = no response) and the socket code.      *)
(***************************************************************************)
Err(k, s, c) == [kind |-> k, status |-> s, code |-> c]
NoErr == Err("none", 0, "")
ErrNoLoginData == Err("NoLoginData", 0, "")
ErrRefreshExpired == Err("RefreshExpired", 0, "")
ErrNoLinkedPatients == Err("NoLinkedPatients", 0, "")
ErrNoBleEndpoint == Err("NoBleEndpoint", 0, "")
ErrBleEmpty == Err("BleEmpty", 0, "")
ErrRequestCount == Err("RequestCount", 0, "")
ErrFetchFailed == Err("FetchFailed", 0, "")
ErrHttp(s) == Err("Axios", s, "ERR_BAD_RESPONSE")
ErrNet(c) == Err("Axios", 0, c)

(***************************************************************************)
(* What the servers can answer.  A raw outcome is a response (status and   *)
(* body) or a socket failure.                                              *)
(***************************************************************************)
NoData == [absent |-> TRUE]
Payload(f, n, m) == [deviceFamily |-> f, nkeys |-> n, marker |-> m]
Payloads ==
    { NoData,
      Payload(<<>>, 0, FALSE),
      Payload(S_GUARDIAN, 1, FALSE),
      Payload(S_MINIMED780G_BLE, 2, TRUE),
      Payload(<<>>, 2, TRUE),
      Payload(<<>>, 2, FALSE) }

ErrorStatuses == {403, 500}
SocketCodes == {"ECONNRESET"}

RawResponse(s, b) == [type |-> "response", status |-> s, data |-> b]
RawSocket(c) == [type |-> "socket", code |-> c]

Raw(bodies) ==
    { RawResponse(s, b) : s \in {200, 302}, b \in bodies }
        \cup { RawResponse(204, NoData) }
        \cup { RawResponse(s, NoData) : s \in ErrorStatuses }
        \cup { RawSocket(c) : c \in SocketCodes }

UserInfo(r, d) == [role |-> r, id |-> d]
UserInfos ==
    { NoData,
      UserInfo(<<>>, 0),
      UserInfo(S_PATIENT, 42),
      UserInfo(S_PATIENT, 0),
      UserInfo(S_CARE_PARTNER, 42),
      UserInfo(S_care_partner, 42),
      UserInfo(S_Care_Partner_ous, 42) }

PatientList(us) == [usernames |-> us]
PatientLists ==
    { NoData, PatientList(<<>>), PatientList(<<"alice">>),
      PatientList(<<"bob", "alice">>) }

CountrySettings(e) == [blePereodicDataEndpoint |-> e]
CountrySettingsSet == { NoData, CountrySettings(""), CountrySettings("ble") }

(***************************************************************************)
(* axios: maxRedirects 0 hands a 3xx response to validateStatus, which     *)
(* rejects everything outside 2xx; the response interceptor then turns a   *)
(* rejected 2xx/3xx back into a response.                                  *)
(***************************************************************************)
InterceptorKeeps(status) == status >= 200 /\ status < 400

Delivered(raw) ==
    IF raw.type = "socket"
    THEN [ok |-> FALSE, status |-> 0, data |-> NoData, err |-> ErrNet(raw.code)]
    ELSE IF (raw.status >= 200 /\ raw.status < 300) \/ InterceptorKeeps(raw.status)
         THEN [ok |-> TRUE, status |-> raw.status, data |-> raw.data, err |-> NoErr]
         ELSE [ok |-> FALSE, status |-> raw.status, data |-> NoData,
               err |-> ErrHttp(raw.status)]

(***************************************************************************)
(* Requests as they leave the client.                                      *)
(***************************************************************************)
NoParams == [none |-> TRUE]
Req(u, p) == [url |-> u, params |-> p]
Urls(cs) == { cs[k].url : k \in 1..Len(cs) }

OptionsUsername == "me"
BleBody(patientId) ==
    IF patientId # 0
    THEN [username |-> OptionsUsername, role |-> "patient",
          appVersion |-> "CareLink Connect 2.0", patientId |-> patientId]
    ELSE [username |-> OptionsUsername, role |-> "patient",
          appVersion |-> "CareLink Connect 2.0"]

(***************************************************************************)
(* ProxyRotator.                                                           *)
(***************************************************************************)
hasProxies == Len(proxies) > 0

\* mutant: the rotation index is never advanced
getNextStuck(ps, index) ==
    IF Len(ps) = 0
    THEN [proxy |-> 0, index |-> index]
    ELSE [proxy |-> ps[index + 1], index |-> index]

\* getNext(): [proxy, index']; proxy 0 is "none"
getNext(ps, index) ==
    IF Len(ps) = 0
    THEN [proxy |-> 0, index |-> index]
    ELSE [proxy |-> ps[index + 1], index |-> (index + 1) % Len(ps)]

\* mutant: tryNext() hands out a proxy however many it has handed out
tryNextUnbounded ==
    [proxy |-> getNext(proxies, currentIndex).proxy,
     index |-> getNext(proxies, currentIndex).index,
     retries |-> retryCount + 1]

\* tryNext(): [proxy, index', retries']
tryNext ==
    IF retryCount >= MaxRotations
    THEN [proxy |-> 0, index |-> currentIndex, retries |-> retryCount]
    ELSE [proxy |-> getNext(proxies, currentIndex).proxy,
          index |-> getNext(proxies, currentIndex).index,
          retries |-> retryCount + 1]

\* mutant: the rotation starts again at the head of the list
resetRetriesAndIndex == [index |-> 0, retries |-> 0]

\* resetRetries(): [index', retries']
resetRetries == [index |-> currentIndex, retries |-> 0]

createProxyAgent(proxy) == proxy

\* the last proxy among the returns h of the rotator, or else the one before
LastProxy(h, before) ==
    IF \E k \in DOMAIN h : h[k] # 0
    THEN h[CHOOSE k \in DOMAIN h :
             h[k] # 0 /\ \A m \in DOMAIN h : h[m] # 0 => m <= k]
    ELSE before

\* applyProxy(proxy): the agent installed afterwards
applyProxy(proxy, agent) ==
    IF proxy # 0
    THEN IF createProxyAgent(proxy) # 0 THEN createProxyAgent(proxy) ELSE agent
    ELSE 0

(***************************************************************************)
(* Token handling.                                                         *)
(***************************************************************************)
isTokenExpired(token) == token # "valid"

(***************************************************************************)
(* The state after `new CareLinkClient(options)`: the first proxy of a     *)
(* non-empty list is installed.  main.ts starts the loop only once         *)
(* logindata.json exists.                                                  *)
(***************************************************************************)
Endpoints == {"entries", "devicestatus"}

NoResult ==
    [kind |-> "none", data |-> NoData, status |-> 0, url |-> "", err |-> NoErr,
     cause |-> NoErr]
Returned(r, u) ==
    [kind |-> "data", data |-> r.data, status |-> r.status, url |-> u,
     err |-> NoErr, cause |-> NoErr]
Thrown(e) ==
    [kind |-> "error", data |-> NoData, status |-> 0, url |-> "", err |-> e,
     cause |-> NoErr]

Mixed == Err("mixed", 0, "")

Unasked == [ok |-> FALSE, status |-> 0, data |-> NoData, err |-> NoErr]

\* no fetch() has been called
NoFetchYet ==
    /\ handed = <<>>
    /\ retryCount = 0
    /\ authorization = "none"
    /\ requestCount = 0
    /\ i = 0
    /\ maxRetry = 0
    /\ role = <<>>
    /\ pending = NoParams
    /\ result = NoResult
    /\ lastErr = NoErr
    /\ sleepSecs = 0
    /\ attempts = 0
    /\ sent = 0
    /\ calls = <<>>
    /\ tryNextCalls = 0
    /\ backoffs = 0
    /\ onlyErr = NoErr
    /\ failedAt = "none"
    /\ refreshed = "none"
    /\ heard = Unasked

Constructed ==
    /\ \E n \in 0..MaxProxies :
         /\ proxies = [k \in 1..n |-> k]
         /\ currentIndex = getNext([k \in 1..n |-> k], 0).index
         /\ httpsAgent = IF n > 0
                         THEN applyProxy(getNext([k \in 1..n |-> k], 0).proxy, 0)
                         ELSE 0
         /\ handedBefore = IF n > 0
                           THEN getNext([k \in 1..n |-> k], 0).proxy
                           ELSE 0
    /\ NoFetchYet

\* main.ts before `await ensureLogin()`: no watermark, nothing uploaded
Loaded ==
    /\ pc = "boot"
    /\ logindata \in {"absent", "valid", "expired"}
    /\ entries = <<>>
    /\ devicestatus = <<>>
    /\ newSgvs = <<>>
    /\ newDeviceStatuses = <<>>
    /\ sgvWatermark = 0
    /\ statusWatermark = 0
    /\ delivered = [e \in Endpoints |-> {}]
    /\ failed = [e \in Endpoints |-> {}]
    /\ handled = "none"

\* the portal of this specification holds no reading
Init == Constructed /\ Loaded /\ latest = 0 /\ audit = FALSE

\* one proxy configured, and the requests of a fetch() counted
InitAudit ==
    Constructed /\ Loaded /\ latest = 0 /\ Len(proxies) = 1 /\ audit = TRUE

(***************************************************************************)
(* fetch(): the catch block, from the rejection to the next await or throw.*)
(***************************************************************************)
isProxyError(e) == e.status \in ProxyErrorStatuses
\* mutant: a connection reset is not taken for a network error
isNetworkErrorButReset(e) == e.code \in (NetworkErrorCodes \ {"ECONNRESET"})

isNetworkError(e) == e.code \in NetworkErrorCodes

\* mutant: the retry budget ignores whether proxies are configured
MaxRetryAlways == MaxRetryWithProxies

MaxRetry == IF hasProxies THEN MaxRetryWithProxies ELSE MaxRetryWithoutProxies

\* mutant: the backoff exponent counted from 0
BackoffSecsFromZero(attempt) == 2 ^ (attempt - 1)

BackoffSecs(attempt) == 2 ^ attempt

\* mutant: socket failures do not rotate
RotatesOnProxyErrorOnly(e) == isProxyError(e) /\ hasProxies

\* mutant: every failure rotates
RotatesOnAnyError(e) == hasProxies

Rotates(e) == (isProxyError(e) \/ isNetworkError(e)) /\ hasProxies

\* mutant: the last attempt is not recognised
IsLastAttemptNever == FALSE

IsLastAttempt == i = maxRetry

Catch(e) ==
    /\ lastErr' = e
    /\ onlyErr' = IF onlyErr \in {NoErr, e} THEN e ELSE Mixed
    /\ failedAt' = IF pc = "me" /\ failedAt \in {"none", "me"}
                   THEN "me"
                   ELSE "other"
    /\ UNCHANGED role
    /\ heard' = Unasked
    /\ IF Rotates(e)
       THEN /\ tryNextCalls' = tryNextCalls + 1
            /\ currentIndex' = tryNext.index
            /\ handed' = Append(handed, tryNext.proxy)
            /\ retryCount' = tryNext.retries
            /\ UNCHANGED backoffs
            /\ IF tryNext.proxy = 0
               THEN /\ pc' = "done"
                    /\ result' = Thrown(e)
                    /\ UNCHANGED <<httpsAgent, sleepSecs>>
               ELSE /\ httpsAgent' = applyProxy(tryNext.proxy, httpsAgent)
                    /\ sleepSecs' = ProxyPauseSecs
                    /\ pc' = "sleep"
                    /\ UNCHANGED result
       ELSE /\ UNCHANGED <<tryNextCalls, currentIndex, handed, retryCount, httpsAgent>>
            /\ IF IsLastAttempt
               THEN /\ pc' = "done"
                    /\ result' = Thrown(e)
                    /\ UNCHANGED <<sleepSecs, backoffs>>
               ELSE /\ sleepSecs' = BackoffSecs(i)
                    /\ backoffs' = backoffs + 1
                    /\ pc' = "sleep"
                    /\ UNCHANGED result

\* the attempt goes on to its next await
Goto(p) ==
    /\ pc' = p
    /\ UNCHANGED <<result, lastErr, onlyErr, failedAt, currentIndex, handed, retryCount,
                   httpsAgent, sleepSecs, tryNextCalls, backoffs>>

\* `return data` out of the try block
Return(r, u) ==
    /\ pc' = "done"
    /\ result' = Returned(r, u)
    /\ heard' = Unasked
    /\ UNCHANGED <<role, lastErr, onlyErr, failedAt, currentIndex, handed, retryCount,
                   httpsAgent, sleepSecs, tryNextCalls, backoffs>>

\* the request interceptor: count the request, refuse it over the ceiling
Refused == requestCount + 1 > MAX_REQUESTS_PER_FETCH

Sends(u, p) ==
    /\ requestCount' = requestCount + 1
    /\ IF Refused
       THEN UNCHANGED <<sent, calls>>
       ELSE /\ sent' = IF audit THEN sent + 1 ELSE sent
            /\ calls' = Append(calls, Req(u, p))

\* what one axiosInstance call can come back with
Answers(bodies) ==
    IF Refused
    THEN { [ok |-> FALSE, status |-> 0, data |-> NoData, err |-> ErrRequestCount] }
    ELSE { Delivered(raw) : raw \in Raw(bodies) }

(***************************************************************************)
(* fetch(): entry, and the loop head after a sleep.                        *)
(***************************************************************************)
StartFetch ==
    /\ pc = "idle"
    /\ requestCount' = 0
    /\ retryCount' = resetRetries.retries
    /\ currentIndex' = resetRetries.index
    /\ maxRetry' = MaxRetry
    /\ i' = 1
    /\ pc' = "auth"
    /\ attempts' = 1
    /\ sent' = 0
    /\ calls' = <<>>
    /\ tryNextCalls' = 0
    /\ backoffs' = 0
    /\ onlyErr' = NoErr
    /\ failedAt' = "none"
    /\ lastErr' = NoErr
    /\ refreshed' = "none"
    /\ heard' = Unasked
    /\ result' = NoResult
    /\ handed' = <<>>
    /\ handedBefore' = LastProxy(handed, handedBefore)
    /\ UNCHANGED <<proxies, audit, httpsAgent, logindata, authorization,
                   role, pending, sleepSecs>>
    /\ UNCHANGED loopVars

\* mutant: the for statement has no bound
LoopGoesOnAlways == TRUE

\* i++, then i <= maxRetry
LoopGoesOn == i + 1 <= maxRetry

SleepDone ==
    /\ pc = "sleep"
    /\ i' = i + 1
    /\ IF LoopGoesOn
       THEN /\ requestCount' = 0
            /\ pc' = "auth"
            /\ attempts' = attempts + 1
            /\ calls' = <<>>
            /\ role' = <<>>
            /\ pending' = NoParams
            /\ lastErr' = NoErr
            /\ sleepSecs' = 0
            /\ refreshed' = "none"
            /\ heard' = Unasked
            /\ UNCHANGED result
       ELSE /\ pc' = "done"
            /\ result' = Thrown(ErrFetchFailed)
            /\ UNCHANGED <<requestCount, attempts, calls, role, pending,
                           lastErr, sleepSecs, refreshed, heard>>
    /\ UNCHANGED <<proxies, handedBefore, audit, currentIndex, handed, retryCount, httpsAgent, logindata,
                   authorization, maxRetry, sent, tryNextCalls, backoffs,
                   onlyErr, failedAt>>
    /\ UNCHANGED loopVars

(***************************************************************************)
(* authenticate()                                                          *)
(***************************************************************************)
\* mutant: the refresh is made whatever the access token
RefreshesAlways(loginData) == TRUE

\* if (isTokenExpired(loginData.access_token))
Refreshes(loginData) == isTokenExpired(loginData)

Authenticate ==
    /\ pc = "auth"
    /\ IF logindata = "absent"
       THEN /\ Catch(ErrNoLoginData)
            /\ UNCHANGED authorization
       ELSE IF Refreshes(logindata)
            THEN /\ Goto("refresh")
                 /\ UNCHANGED <<authorization, role, heard>>
            ELSE /\ authorization' = "bearer"
                 /\ Goto("me")
                 /\ UNCHANGED <<role, heard>>
    /\ UNCHANGED <<proxies, handedBefore, audit, logindata, requestCount, i, maxRetry, pending,
                   attempts, sent, calls, refreshed>>
    /\ UNCHANGED loopVars

RefreshOutcomes == {"ok", "rejected", "network", "savefail"}

RefreshToken ==
    /\ pc = "refresh"
    /\ \E outcome \in RefreshOutcomes :
         /\ refreshed' = outcome
         /\ IF outcome = "ok"
            THEN /\ logindata' = "valid"
                 /\ authorization' = "bearer"
                 /\ Goto("me")
                 /\ UNCHANGED <<role, heard>>
            ELSE /\ logindata' = "absent"
                 /\ Catch(ErrRefreshExpired)
                 /\ UNCHANGED authorization
    /\ UNCHANGED <<proxies, handedBefore, audit, requestCount, i, maxRetry, pending, attempts, sent,
                   calls>>
    /\ UNCHANGED loopVars

(***************************************************************************)
(* getCurrentRole() and the branch of getConnectData()                     *)
(***************************************************************************)
\* mutant: the role is the one getConnectData() had before this call
RoleOfEarlier(data) == role

\* mutant: the role is compared as the server spelled it
RoleOfAsSpelled(data) == IF data = NoData THEN <<>> ELSE data.role

RoleOf(data) == IF data = NoData THEN <<>> ELSE toUpperCase(data.role)

IsCarepartner(r) == r = S_CARE_PARTNER_OUS \/ r = S_CARE_PARTNER

GotRole(r) ==
    /\ role' = RoleOf(r.data)
    /\ heard' = r
    /\ IF IsCarepartner(RoleOf(r.data)) THEN Goto("linked") ELSE Goto("monitor")

GetCurrentRole ==
    /\ pc = "me"
    /\ Sends("me", NoParams)
    /\ \E r \in Answers(UserInfos) :
         IF r.ok THEN GotRole(r) ELSE Catch(r.err)
    /\ UNCHANGED <<proxies, handedBefore, audit, logindata, authorization, i, maxRetry, pending,
                   attempts, refreshed>>
    /\ UNCHANGED loopVars

(***************************************************************************)
(* fetchAsCarepartner()                                                    *)
(***************************************************************************)
GotPatients(r) ==
    IF r.data = NoData \/ Len(r.data.usernames) = 0
    THEN /\ Catch(ErrNoLinkedPatients)
         /\ UNCHANGED pending
    ELSE /\ pending' = [username |-> r.data.usernames[1], role |-> "carepartner"]
         /\ Goto("connectCP")
         /\ heard' = r
         /\ UNCHANGED role

CatchKeep(e) == Catch(e) /\ UNCHANGED pending

LinkedPatients ==
    /\ pc = "linked"
    /\ Sends("linkedPatients", NoParams)
    /\ \E r \in Answers(PatientLists) :
         IF r.ok THEN GotPatients(r) ELSE CatchKeep(r.err)
    /\ UNCHANGED <<proxies, handedBefore, audit, logindata, authorization, i, maxRetry, attempts,
                   refreshed>>
    /\ UNCHANGED loopVars

\* mutant: an empty connect-data answer is thrown, as the BLE path does
ReturnConnectUnlessEmpty(r) ==
    IF r.status = 204 \/ r.data = NoData \/ r.data.nkeys = 0
    THEN Catch(Err("ConnectEmpty", 0, ""))
    ELSE Return(r, "connectData")

ReturnConnect(r) == Return(r, "connectData")

CarepartnerData ==
    /\ pc = "connectCP"
    /\ Sends("connectData", pending)
    /\ \E r \in Answers(Payloads) :
         IF r.ok THEN ReturnConnect(r) ELSE Catch(r.err)
    /\ UNCHANGED <<proxies, handedBefore, audit, logindata, authorization, i, maxRetry, pending,
                   attempts, refreshed>>
    /\ UNCHANGED loopVars

(***************************************************************************)
(* fetchAsPatient()                                                        *)
(***************************************************************************)
\* mutant: the tag is compared with "BLE" instead of searched for it
isBleDeviceExactly(deviceFamily) == deviceFamily = S_BLE

isBleDevice(deviceFamily) ==
    /\ deviceFamily # <<>>
    /\ \/ includes(deviceFamily, S_BLE)
       \/ includes(deviceFamily, S_MINIMED)
       \/ includes(deviceFamily, S_SIMPLERA)

GotMonitor(r) ==
    /\ UNCHANGED role
    /\ IF r.data # NoData /\ r.data.deviceFamily # <<>>
          /\ isBleDevice(r.data.deviceFamily)
       THEN Goto("settings")
       ELSE IF r.status = 200 /\ r.data # NoData /\ r.data.nkeys > 1
            THEN /\ pc' = "done"
                 /\ result' = Returned(r, "monitorData")
                 /\ UNCHANGED <<lastErr, onlyErr, failedAt, currentIndex, handed, retryCount,
                                httpsAgent, sleepSecs, tryNextCalls, backoffs>>
            ELSE Goto("connect")

\* mutant: the failure of the monitor-data call is left to fetch()
MonitorFailedThrows(r) == Catch(r.err)

\* catch (e) { /* fall through to legacy endpoint */ }
MonitorFailed(r) == heard' = r /\ Goto("connect") /\ UNCHANGED role

MonitorData ==
    /\ pc = "monitor"
    /\ Sends("monitorData", NoParams)
    /\ \E r \in Answers(Payloads) :
         IF r.ok THEN heard' = r /\ GotMonitor(r) ELSE MonitorFailed(r)
    /\ UNCHANGED <<proxies, handedBefore, audit, logindata, authorization, i, maxRetry, pending,
                   attempts, refreshed>>
    /\ UNCHANGED loopVars

LegacyConnect ==
    /\ pc = "connect"
    /\ Sends("connectData", NoParams)
    /\ \E r \in Answers(Payloads) :
         IF r.ok THEN ReturnConnect(r) ELSE Catch(r.err)
    /\ UNCHANGED <<proxies, handedBefore, audit, logindata, authorization, i, maxRetry, pending,
                   attempts, refreshed>>
    /\ UNCHANGED loopVars

(***************************************************************************)
(* fetchBleDeviceData()                                                    *)
(***************************************************************************)
BleEndpointOf(data) ==
    IF data = NoData THEN "" ELSE data.blePereodicDataEndpoint

GotSettings(r) ==
    IF BleEndpointOf(r.data) = ""
    THEN Catch(ErrNoBleEndpoint)
    ELSE Goto("bleMe") /\ UNCHANGED role /\ heard' = Unasked

CountrySettingsCall ==
    /\ pc = "settings"
    /\ Sends("countrySettings", NoParams)
    /\ \E r \in Answers(CountrySettingsSet) :
         IF r.ok THEN GotSettings(r) ELSE Catch(r.err)
    /\ UNCHANGED <<proxies, handedBefore, audit, logindata, authorization, i, maxRetry, pending,
                   attempts, refreshed>>
    /\ UNCHANGED loopVars

PatientIdOf(data) == IF data = NoData THEN 0 ELSE data.id

GotUserInfo(r) ==
    /\ pending' = BleBody(PatientIdOf(r.data))
    /\ Goto("blePost")
    /\ UNCHANGED <<role, heard>>

BleUserInfo ==
    /\ pc = "bleMe"
    /\ Sends("me", NoParams)
    /\ \E r \in Answers(UserInfos) :
         IF r.ok THEN GotUserInfo(r) ELSE CatchKeep(r.err)
    /\ UNCHANGED <<proxies, handedBefore, audit, logindata, authorization, i, maxRetry, attempts,
                   refreshed>>
    /\ UNCHANGED loopVars

\* mutant: the BLE answer is returned whatever its status
GotBleAnyStatus(r) ==
    IF r.data # NoData
    THEN Return(r, "ble")
    ELSE Catch(ErrBleEmpty)

GotBle(r) ==
    IF r.data # NoData /\ r.status = 200
    THEN Return(r, "ble")
    ELSE Catch(ErrBleEmpty)

BlePost ==
    /\ pc = "blePost"
    /\ Sends("ble", pending)
    /\ \E r \in Answers(Payloads) :
         IF r.ok THEN GotBle(r) ELSE Catch(r.err)
    /\ UNCHANGED <<proxies, handedBefore, audit, logindata, authorization, i, maxRetry, pending,
                   attempts, refreshed>>
    /\ UNCHANGED loopVars

(***************************************************************************)
(* transform(): the snapshot holds the readings of the portal, the newest  *)
(* sgvLimit of them become entries, and the newest one dates the device    *)
(* status.  created_at is a string of two digits.                          *)
(***************************************************************************)
DigitChars == <<"0", "1", "2", "3", "4", "5", "6", "7", "8", "9">>

toISOString(t) == <<DigitChars[(t \div 10) + 1], DigitChars[(t % 10) + 1]>>

DigitValue(c) == CHOOSE d \in 0..9 : DigitChars[d + 1] = c

\* new Date(s).getTime()
getTime(s) == 10 * DigitValue(s[1]) + DigitValue(s[2])

Sgv(t) == [date |-> t]
DeviceStatus(t) == [created_at |-> toISOString(t)]

Min(a, b) == IF a < b THEN a ELSE b

transform(data, sgvLimit) ==
    [entries |-> [k \in 1..Min(sgvLimit, latest) |->
                     Sgv(latest - Min(sgvLimit, latest) + k)],
     devicestatus |-> IF latest > 0 THEN <<DeviceStatus(latest)>> ELSE <<>>]

(***************************************************************************)
(* makeRecencyFilter(): keys[k] is the key extracted from items[k].        *)
(***************************************************************************)
\* mutant: an item whose key equals the watermark counts as new
NotOlderThan(items, keys, watermark) ==
    LET Kept[n \in 0..Len(items)] ==
            IF n = 0 THEN <<>>
            ELSE IF keys[n] >= watermark
                 THEN Append(Kept[n - 1], items[n])
                 ELSE Kept[n - 1]
    IN  Kept[Len(items)]

\* the items the filter returns
NewerThan(items, keys, watermark) ==
    LET Kept[n \in 0..Len(items)] ==
            IF n = 0 THEN <<>>
            ELSE IF keys[n] > watermark
                 THEN Append(Kept[n - 1], items[n])
                 ELSE Kept[n - 1]
    IN  Kept[Len(items)]

\* mutant: the watermark becomes the key of the last item
LastKey(keys, watermark) ==
    IF Len(keys) = 0 THEN watermark ELSE keys[Len(keys)]

\* the watermark the filter leaves
HighestKey(keys, watermark) ==
    LET Highest[n \in 0..Len(keys)] ==
            IF n = 0 THEN watermark
            ELSE IF keys[n] > Highest[n - 1] THEN keys[n] ELSE Highest[n - 1]
    IN  Highest[Len(keys)]

SgvKeys(items) == [k \in 1..Len(items) |-> items[k].date]
DeviceStatusKeys(items) == [k \in 1..Len(items) |-> getTime(items[k].created_at)]

\* filterSgvs(items): [out, watermark']
filterSgvs(items) ==
    [out |-> NewerThan(items, SgvKeys(items), sgvWatermark),
     watermark |-> HighestKey(SgvKeys(items), sgvWatermark)]

\* filterDeviceStatus(items): [out, watermark']
filterDeviceStatus(items) ==
    [out |-> NewerThan(items, DeviceStatusKeys(items), statusWatermark),
     watermark |-> HighestKey(DeviceStatusKeys(items), statusWatermark)]

Range(f) == { f[k] : k \in DOMAIN f }

(***************************************************************************)
(* main.ts: startup.                                                       *)
(***************************************************************************)
EnsureLogin ==
    /\ pc = "boot"
    /\ IF logindata # "absent"
       THEN /\ pc' = "idle"
            /\ UNCHANGED logindata
       ELSE \E loggedIn \in BOOLEAN :
              IF loggedIn
              THEN /\ logindata' = "valid"
                   /\ pc' = "idle"
              ELSE /\ pc' = "exited"
                   /\ UNCHANGED logindata
    /\ UNCHANGED <<proxies, handedBefore, audit, currentIndex, handed, retryCount, httpsAgent,
                   authorization, requestCount, i, maxRetry, role, pending,
                   result, lastErr, sleepSecs, attempts, sent, calls,
                   tryNextCalls, backoffs, onlyErr, failedAt, refreshed, heard>>
    /\ UNCHANGED loopVars

(***************************************************************************)
(* requestLoop(): from the return of fetch() to the first upload, or to    *)
(* the sleep when there is nothing to upload.                              *)
(***************************************************************************)
\* mutant: any payload that is there is taken for a snapshot
HasAnything(data) == data # NoData

\* data?.lastMedicalDeviceDataUpdateServerTime
HasMarker(data) == data # NoData /\ data.marker

\* mutant: a failed cycle goes back to ensureLogin()
CycleLogsIn == "boot"

\* mutant: without the catch of requestLoop() a failed cycle rejects it
RequestLoopRejects == "exited"

\* catch (error) { console.error(error) }, then the sleep
CycleCaught == "interval"

PollCycle ==
    /\ pc = "done"
    /\ IF result.kind = "data" /\ HasMarker(result.data)
       THEN \E threw \in BOOLEAN :
              IF threw
              THEN /\ pc' = CycleCaught
                   /\ handled' = "caught"
                   /\ UNCHANGED <<entries, devicestatus, newSgvs,
                                  newDeviceStatuses, sgvWatermark,
                                  statusWatermark>>
              ELSE /\ entries' = transform(result.data, SgvLimit).entries
                   /\ devicestatus' = transform(result.data, SgvLimit).devicestatus
                   /\ newSgvs' = filterSgvs(entries').out
                   /\ sgvWatermark' = filterSgvs(entries').watermark
                   /\ newDeviceStatuses' = filterDeviceStatus(devicestatus').out
                   /\ statusWatermark' = filterDeviceStatus(devicestatus').watermark
                   /\ pc' = "entries"
                   /\ handled' = "processed"
       ELSE /\ pc' = IF result.kind = "data" THEN "interval" ELSE CycleCaught
            /\ handled' = IF result.kind = "data" THEN "warned" ELSE "caught"
            /\ UNCHANGED <<entries, devicestatus, newSgvs, newDeviceStatuses,
                           sgvWatermark, statusWatermark>>
    /\ result' = NoResult
    /\ i' = 0
    /\ maxRetry' = 0
    /\ role' = <<>>
    /\ pending' = NoParams
    /\ lastErr' = NoErr
    /\ sleepSecs' = 0
    /\ attempts' = 0
    /\ sent' = 0
    /\ calls' = <<>>
    /\ tryNextCalls' = 0
    /\ backoffs' = 0
    /\ onlyErr' = NoErr
    /\ failedAt' = "none"
    /\ refreshed' = "none"
    /\ heard' = Unasked
    /\ UNCHANGED <<latest, delivered, failed>>
    /\ UNCHANGED clientVars

(***************************************************************************)
(* uploadIfNew(): an upload that fails is logged and forgotten.            *)
(***************************************************************************)
uploadIfNew(items, keys, endpoint) ==
    IF Len(items) = 0
    THEN UNCHANGED <<delivered, failed>>
    ELSE \E uploaded \in BOOLEAN :
           IF uploaded
           THEN /\ delivered' = [delivered EXCEPT ![endpoint] = @ \cup Range(keys)]
                /\ failed' = [failed EXCEPT ![endpoint] = @ \ Range(keys)]
           ELSE /\ failed' = [failed EXCEPT ![endpoint] = @ \cup Range(keys)]
                /\ UNCHANGED delivered

fetchVars ==
    <<pc, i, maxRetry, role, pending, result, lastErr, sleepSecs, attempts, sent,
      calls, tryNextCalls, backoffs, onlyErr, failedAt, refreshed, heard>>

UploadEntries ==
    /\ pc = "entries"
    /\ uploadIfNew(newSgvs, SgvKeys(newSgvs), "entries")
    /\ pc' = "devicestatus"
    /\ UNCHANGED <<i, maxRetry, role, pending, result, lastErr, sleepSecs,
                   attempts, sent, calls, tryNextCalls, backoffs, onlyErr,
                   failedAt, refreshed, heard>>
    /\ UNCHANGED <<latest, entries, devicestatus, newSgvs, newDeviceStatuses,
                   sgvWatermark, statusWatermark, handled>>
    /\ UNCHANGED clientVars

\* mutant: the loop goes round without sleeping
NoSleep == "idle"

\* await sleep(config.interval) is what follows the try statement
AfterCycle == "interval"

UploadDeviceStatus ==
    /\ pc = "devicestatus"
    /\ uploadIfNew(newDeviceStatuses, DeviceStatusKeys(newDeviceStatuses),
                   "devicestatus")
    /\ pc' = AfterCycle
    /\ UNCHANGED <<i, maxRetry, role, pending, result, lastErr, sleepSecs,
                   attempts, sent, calls, tryNextCalls, backoffs, onlyErr,
                   failedAt, refreshed, heard>>
    /\ UNCHANGED <<latest, entries, devicestatus, newSgvs, newDeviceStatuses,
                   sgvWatermark, statusWatermark, handled>>
    /\ UNCHANGED clientVars

\* the sleep ends and the loop goes round: the locals of the body are gone
IntervalSleep ==
    /\ pc = "interval"
    /\ pc' = "idle"
    /\ entries' = <<>>
    /\ devicestatus' = <<>>
    /\ newSgvs' = <<>>
    /\ newDeviceStatuses' = <<>>
    /\ handled' = "none"
    /\ UNCHANGED <<i, maxRetry, role, pending, result, lastErr, sleepSecs,
                   attempts, sent, calls, tryNextCalls, backoffs, onlyErr,
                   failedAt, refreshed, heard>>
    /\ UNCHANGED <<latest, sgvWatermark, statusWatermark, delivered, failed>>
    /\ UNCHANGED clientVars

(***************************************************************************)
(* The world outside the process.                                          *)
(***************************************************************************)
TokenExpires ==
    /\ logindata = "valid"
    /\ logindata' = "expired"
    /\ UNCHANGED <<proxies, handedBefore, audit, heard, currentIndex, handed, retryCount, httpsAgent,
                   authorization, requestCount, pc, i, maxRetry, role, pending,
                   result, lastErr, sleepSecs, attempts, sent, calls,
                   tryNextCalls, backoffs, onlyErr, failedAt, refreshed>>
    /\ UNCHANGED loopVars

LoginRestored ==
    /\ logindata = "absent"
    /\ logindata' = "valid"
    /\ UNCHANGED <<proxies, handedBefore, audit, heard, currentIndex, handed, retryCount, httpsAgent,
                   authorization, requestCount, pc, i, maxRetry, role, pending,
                   result, lastErr, sleepSecs, attempts, sent, calls,
                   tryNextCalls, backoffs, onlyErr, failedAt, refreshed>>
    /\ UNCHANGED loopVars

Next ==
    \/ EnsureLogin
    \/ StartFetch
    \/ SleepDone
    \/ Authenticate
    \/ RefreshToken
    \/ GetCurrentRole
    \/ LinkedPatients
    \/ CarepartnerData
    \/ MonitorData
    \/ LegacyConnect
    \/ CountrySettingsCall
    \/ BleUserInfo
    \/ BlePost
    \/ PollCycle
    \/ UploadEntries
    \/ UploadDeviceStatus
    \/ IntervalSleep
    \/ TokenExpires
    \/ LoginRestored

Spec == Init /\ [][Next]_vars

\* the same program, with the requests of a fetch() counted
SpecAudit == InitAudit /\ [][Next]_vars

(***************************************************************************)
(* fetch() where every awaited call and every sleep completes: an attempt  *)
(* that can take its next step takes it.                                   *)
(***************************************************************************)
FetchStep ==
    \/ SleepDone
    \/ Authenticate
    \/ RefreshToken
    \/ GetCurrentRole
    \/ LinkedPatients
    \/ CarepartnerData
    \/ MonitorData
    \/ LegacyConnect
    \/ CountrySettingsCall
    \/ BleUserInfo
    \/ BlePost

\* what the world outside does to logindata.json during an attempt is seen
\* by the next attempt only, which loads the file anew
ExpiresBetweenAttempts == pc = "sleep" /\ TokenExpires
RestoredBetweenAttempts == pc = "sleep" /\ LoginRestored

NextFetch ==
    \/ EnsureLogin
    \/ StartFetch
    \/ FetchStep
    \/ ExpiresBetweenAttempts
    \/ RestoredBetweenAttempts

SpecFetch == Init /\ [][NextFetch]_vars /\ WF_vars(FetchStep)

(***************************************************************************)
(* The poll loop by itself: fetch() is taken for what it comes back with,  *)
(* and the portal takes new readings between two fetches.                  *)
(***************************************************************************)
FetchOutcomes ==
    { Thrown(ErrFetchFailed) }
        \cup { Returned([data |-> d, status |-> 200], "connectData") :
                 d \in {NoData, Payload(<<>>, 2, TRUE), Payload(<<>>, 2, FALSE)} }

\* const data = await client.fetch()
FetchSettles ==
    /\ pc = "idle"
    /\ pc' = "done"
    /\ \E t \in latest..MaxReading : latest' = t
    /\ \E r \in FetchOutcomes : result' = r
    /\ UNCHANGED <<i, maxRetry, role, pending, lastErr, sleepSecs, attempts,
                   sent, calls, tryNextCalls, backoffs, onlyErr, failedAt,
                   refreshed, heard>>
    /\ UNCHANGED <<entries, devicestatus, newSgvs, newDeviceStatuses,
                   sgvWatermark, statusWatermark, delivered, failed, handled>>
    /\ UNCHANGED clientVars

InitLoop ==
    Constructed /\ Loaded /\ latest = 0 /\ Len(proxies) = 0 /\ audit = FALSE

NextLoop ==
    \/ EnsureLogin
    \/ FetchSettles
    \/ PollCycle
    \/ UploadEntries
    \/ UploadDeviceStatus
    \/ IntervalSleep

\* timers fire and awaited promises settle
SpecLoop == InitLoop /\ [][NextLoop]_vars /\ WF_vars(NextLoop)

(***************************************************************************)
(* The two filters by themselves, called with any batch of keys.           *)
(***************************************************************************)
KeyLists ==
    UNION { [1..n -> 1..MaxReading] : n \in 0..MaxItems }

FilterCall ==
    /\ \E ks \in KeyLists :
         /\ entries' = [k \in 1..Len(ks) |-> Sgv(ks[k])]
         /\ devicestatus' = [k \in 1..Len(ks) |-> DeviceStatus(ks[k])]
    /\ newSgvs' = filterSgvs(entries').out
    /\ sgvWatermark' = filterSgvs(entries').watermark
    /\ newDeviceStatuses' = filterDeviceStatus(devicestatus').out
    /\ statusWatermark' = filterDeviceStatus(devicestatus').watermark
    /\ UNCHANGED <<latest, delivered, failed, handled>>
    /\ UNCHANGED fetchVars
    /\ UNCHANGED clientVars

NextFilter == FilterCall

SpecFilter == InitLoop /\ [][NextFilter]_vars

(***************************************************************************)
(* The rotator by itself: a list of any length, the index anywhere in it,  *)
(* and getNext() called again and again.                                   *)
(***************************************************************************)
InitRotator ==
    /\ \E n \in 0..MaxListed :
         /\ proxies = [k \in 1..n |-> k]
         /\ currentIndex \in 0..(IF n = 0 THEN 0 ELSE n - 1)
    /\ httpsAgent = 0
    /\ handedBefore = 0
    /\ NoFetchYet
    /\ Loaded
    /\ logindata = "valid"
    /\ latest = 0
    /\ audit = FALSE

GetNextCall ==
    /\ Len(handed) < MaxCalls
    /\ handed' = Append(handed, getNext(proxies, currentIndex).proxy)
    /\ currentIndex' = getNext(proxies, currentIndex).index
    /\ UNCHANGED <<proxies, handedBefore, audit, retryCount, httpsAgent, logindata,
                   authorization, requestCount>>
    /\ UNCHANGED fetchVars
    /\ UNCHANGED loopVars

NextRotator == GetNextCall

SpecRotator == InitRotator /\ [][NextRotator]_vars

(***************************************************************************)
(* Properties.                                                             *)
(***************************************************************************)
\* the error is of the class that fetch() answers by rotating proxies
RotationClass(e) ==
    e.status \in ProxyErrorStatuses \/ e.code \in NetworkErrorCodes

\* a step in which an attempt fails and the catch block of fetch() runs
FailStep == lastErr = NoErr /\ lastErr' # NoErr

\* C1: when an attempt finds no credential bundle, fetch() fails at once with
\* that error: one attempt, no backoff sleep, no rotation, no request sent.
C1_FailsImmediately ==
    (lastErr = ErrNoLoginData /\ attempts = 1)
        => /\ pc = "done"
           /\ result = Thrown(ErrNoLoginData)
           /\ backoffs = 0
           /\ tryNextCalls = 0
           /\ calls = <<>>

\* C2: when the refresh exchange is rejected, the attempt deletes the bundle
\* and fetch() fails in that same attempt: no sleep, no further attempt.
C2_RejectedRefreshIsFinal ==
    (refreshed = "rejected" /\ lastErr = ErrRefreshExpired)
        => /\ pc = "done"
           /\ result = Thrown(ErrRefreshExpired)
           /\ sleepSecs = 0

\* fetch() ended in failure having started all of its maxRetry attempts
Exhausted == pc = "done" /\ result.kind = "error" /\ attempts = maxRetry

C4_RequestBudget == sent <= MAX_REQUESTS_PER_FETCH

\* C5 (as claimed): fetch() never returns a payload taken from a 3xx response.
C5_RedirectNeverReturned ==
    result.kind = "data" => ~(result.status >= 300 /\ result.status < 400)

\* C5 (amended): a 3xx response is not followed but is handed to the caller
\* as a response; fetch() returns its body when it answers a connect-data
\* request, and never when it answers the monitor-data request or the BLE
\* POST, whose payloads are returned only with status 200.
C5_RedirectReturnedOnlyByConnect ==
    /\ (result.kind = "data" /\ result.status >= 300 /\ result.status < 400)
          => result.url = "connectData"
    /\ (result.kind = "data" /\ result.url \in {"monitorData", "ble"})
          => result.status = 200

C5_Witness ==
    /\ result.kind = "data"
    /\ result.status = 302
    /\ result.url = "connectData"
    /\ result.data # NoData

\* C6: a fetch() starts at most maxRetry attempts, maxRetry being 10 with
\* proxies and 1 without; every attempt after the first follows one backoff
\* sleep or one proxy rotation, so rotations use up attempts of the bound.
C6_AttemptBound ==
    pc \notin {"boot", "exited", "idle", "entries", "devicestatus", "interval"} =>
        /\ maxRetry = (IF Len(proxies) > 0 THEN 10 ELSE 1)
        /\ attempts <= maxRetry
        /\ attempts >= 1
        /\ pc \notin {"sleep", "done"} => attempts = 1 + backoffs + retryCount
        /\ pc = "sleep" => attempts = backoffs + retryCount

C6_Witness ==
    pc = "me" /\ attempts = 10 /\ retryCount = MaxRotations /\ backoffs > 0

C8_Backoff ==
    [][ /\ (FailStep /\ ~RotationClass(lastErr')) =>
              IF i = maxRetry
              THEN /\ pc' = "done"
                   /\ result' = Thrown(lastErr')
                   /\ sleepSecs' = 0
                   /\ backoffs' = backoffs
              ELSE /\ pc' = "sleep"
                   /\ sleepSecs' = 2 ^ i
                   /\ result' = NoResult
        /\ (pc = "sleep" /\ ~RotationClass(lastErr) /\ pc' # "sleep") =>
              /\ pc' = "auth"
              /\ i' = i + 1
              /\ attempts' = attempts + 1 ]_vars

C8_Witness ==
    pc = "sleep" /\ i = 9 /\ sleepSecs = 512 /\ lastErr = ErrHttp(500)

\* C9: a fetch() whose attempts all end with "no linked patients" (role
\* CARE_PARTNER, empty list) fails with that error and never calls tryNext().
C9_NoLinkedAccountsNoRotation ==
    onlyErr = ErrNoLinkedPatients =>
        /\ tryNextCalls = 0
        /\ retryCount = 0
        /\ (pc = "done" /\ result.kind = "error")
              => result = Thrown(ErrNoLinkedPatients)

C9_Witness ==
    /\ pc = "done"
    /\ Len(proxies) > 0
    /\ role = S_CARE_PARTNER
    /\ onlyErr = ErrNoLinkedPatients
    /\ result = Thrown(ErrNoLinkedPatients)

\* C10: "no linked patients" and "no BLE endpoint" are not retried: the
\* attempt that fails with either ends fetch() with that error, no sleep.
C10_ConfigErrorsNotRetried ==
    lastErr \in {ErrNoLinkedPatients, ErrNoBleEndpoint}
        => /\ pc = "done"
           /\ result = Thrown(lastErr)
           /\ sleepSecs = 0

\* every failure of this fetch() so far was a network-class error of the
\* identity call, with a proxy list configured
NetworkFailuresOnIdentity ==
    /\ Len(proxies) > 0
    /\ onlyErr.code \in NetworkErrorCodes
    /\ failedAt = "me"

FetchFailed == pc = "done" /\ result.kind = "error"
FetchReturned == pc = "done" /\ result.kind = "data"

\* C11 (as claimed): with proxies, when the first N attempts fail with a
\* network-class error on the identity call, for every N < maxRetry fetch()
\* goes on to attempt N + 1 and returns its snapshot after exactly N + 1
\* attempts and N rotations.
C11_NetworkFailuresThenSnapshot ==
    (NetworkFailuresOnIdentity /\ tryNextCalls < maxRetry) =>
        /\ ~FetchFailed
        /\ retryCount = tryNextCalls
        /\ attempts <= maxRetry
        /\ FetchReturned => attempts = tryNextCalls + 1

\* C11 (amended): the same holds for every N that is both smaller than
\* maxRetry and no larger than the rotation budget of tryNext(): fetch()
\* returns the snapshot after N + 1 attempts and N rotations, no backoff
\* sleep, never more than maxRetry attempts.  The failure that finds the
\* rotation budget spent ends fetch() with that network error instead, and
\* attempt N + 1 is never made.
C11_NetworkFailuresWithinRotationBudget ==
    NetworkFailuresOnIdentity =>
        /\ backoffs = 0
        /\ attempts <= maxRetry
        /\ (tryNextCalls < maxRetry /\ tryNextCalls <= MaxRotations) =>
              /\ ~FetchFailed
              /\ retryCount = tryNextCalls
              /\ FetchReturned => attempts = tryNextCalls + 1
        /\ (tryNextCalls < maxRetry /\ tryNextCalls > MaxRotations) =>
              /\ FetchFailed
              /\ result = Thrown(onlyErr)
              /\ retryCount = MaxRotations
              /\ attempts = MaxRotations + 1

C11_Witness ==
    /\ NetworkFailuresOnIdentity
    /\ FetchReturned
    /\ result.data # NoData
    /\ retryCount = MaxRotations
    /\ attempts = MaxRotations + 1

\* the urls of a sequence of requests, in order
UrlsOf(cs) == [k \in 1..Len(cs) |-> cs[k].url]

IsPrefix(a, b) == Len(a) <= Len(b) /\ a = SubSeq(b, 1, Len(a))

\* the answer r of the monitor-data call carries a BLE-class device family
TaggedBle(r) ==
    /\ r.ok
    /\ r.data # NoData
    /\ \/ includes(r.data.deviceFamily, S_BLE)
       \/ includes(r.data.deviceFamily, S_MINIMED)
       \/ includes(r.data.deviceFamily, S_SIMPLERA)

\* r is the answer of the request to u that the requests cs end with
HeardFrom(u, cs, r) == r # Unasked /\ Len(cs) > 0 /\ cs[Len(cs)].url = u

BleOrder == <<"me", "monitorData", "countrySettings", "me", "ble">>

\* C12: in the patient path, a monitor-data answer with a BLE-class device
\* family sends the attempt to country-settings, then the identity endpoint,
\* then the BLE POST, in that order; an attempt that has called
\* country-settings never calls connect-data, also when it fails with "no
\* BLE endpoint" or on any of the three calls.
C12_BlePathNeverLegacy ==
    [][ /\ (HeardFrom("monitorData", calls', heard') /\ TaggedBle(heard')) =>
              /\ pc' = "settings"
              /\ UrlsOf(calls') = SubSeq(BleOrder, 1, 2)
        /\ (pc = "settings" /\ pc' # pc) =>
              calls' = Append(calls, Req("countrySettings", NoParams))
        /\ (pc = "bleMe" /\ pc' # pc) =>
              calls' = Append(calls, Req("me", NoParams))
        /\ (pc = "blePost" /\ pc' # pc) =>
              /\ Len(calls') = Len(calls) + 1
              /\ calls'[Len(calls')].url = "ble"
        /\ ("countrySettings" \in Urls(calls') \/ pc' \in {"settings", "bleMe", "blePost"}) =>
              /\ IsPrefix(UrlsOf(calls'), BleOrder)
              /\ "connectData" \notin Urls(calls')
        /\ pc' = "bleMe" => pc = "settings" \/ pc = pc'
        /\ pc' = "blePost" => pc = "bleMe" \/ pc = pc' ]_vars

C12_Witness ==
    /\ pc = "done"
    /\ result = Thrown(ErrNoBleEndpoint)
    /\ UrlsOf(calls) = SubSeq(BleOrder, 1, 3)

\* the error is one the transport raises: a socket failure, a status outside
\* 2xx/3xx, or the refusal of the request interceptor
TransportError(e) ==
    \/ e.code \in NetworkErrorCodes
    \/ e.status >= 400
    \/ e = ErrRequestCount

\* C13: the legacy connect-data call of the patient path fails the attempt
\* only on a transport error; any answer the transport accepts, HTTP 204 and
\* an empty or absent body included, is returned by fetch() in the same
\* attempt, with no error, sleep, backoff or rotation.
C13_EmptyConnectDataReturned ==
    [][ (pc = "connect" /\ pc' # pc) =>
           \/ /\ lastErr' # NoErr
              /\ TransportError(lastErr')
           \/ /\ pc' = "done"
              /\ result'.kind = "data"
              /\ result'.url = "connectData"
              /\ calls' = Append(calls, Req("connectData", NoParams))
              /\ lastErr' = NoErr
              /\ <<attempts, backoffs, tryNextCalls, retryCount, sleepSecs, i>>'
                    = <<attempts, backoffs, tryNextCalls, retryCount, sleepSecs, i>> ]_vars

C13_Witness ==
    /\ pc = "done"
    /\ result.kind = "data"
    /\ result.url = "connectData"
    /\ result.status = 204
    /\ result.data = NoData
    /\ UrlsOf(calls) = <<"me", "monitorData", "connectData">>
    /\ attempts = 1

\* the spellings of the two care-partner roles that the servers of the model
\* answer with
CarepartnerSpellings ==
    {S_CARE_PARTNER, S_CARE_PARTNER_OUS, S_care_partner, S_Care_Partner_ous}

CarepartnerOrder == <<"me", "linkedPatients", "connectData">>

\* C14: an identity answer whose role is CARE_PARTNER or CARE_PARTNER_OUS in
\* any letter case sends the attempt to the linked-accounts call; the
\* connect-data request that follows carries the first linked account's
\* username and role "carepartner"; an attempt that returns this way has made
\* exactly the identity, linked-accounts and one connect-data request, and
\* no monitor-data, country-settings or BLE request.
C14_CarepartnerPath ==
    [][ /\ (/\ pc = "me"
            /\ HeardFrom("me", calls', heard')
            /\ heard'.data # NoData
            /\ heard'.data.role \in CarepartnerSpellings) =>
              /\ pc' = "linked"
              /\ calls' = <<Req("me", NoParams)>>
        /\ (pc = "linked" /\ pc' = "connectCP") =>
              /\ HeardFrom("linkedPatients", calls', heard')
              /\ Len(heard'.data.usernames) > 0
              /\ pending' = [username |-> Head(heard'.data.usernames),
                             role |-> "carepartner"]
        /\ (pc = "connectCP" /\ pc' # pc) =>
              calls' = Append(calls, Req("connectData", pending))
        /\ (pc' \in {"linked", "connectCP"} \/ "linkedPatients" \in Urls(calls')) =>
              IsPrefix(UrlsOf(calls'), CarepartnerOrder)
        /\ (pc' = "done" /\ result'.kind = "data"
               /\ "linkedPatients" \in Urls(calls')) =>
              UrlsOf(calls') = CarepartnerOrder ]_vars

C14_Witness ==
    /\ pc = "done"
    /\ result.kind = "data"
    /\ result.data # NoData
    /\ role = S_CARE_PARTNER_OUS
    /\ calls = <<Req("me", NoParams), Req("linkedPatients", NoParams),
                 Req("connectData", [username |-> "bob", role |-> "carepartner"])>>

\* the body of answer r has fewer than two top-level fields
FewerThanTwoFields(r) == r.data = NoData \/ r.data.nkeys < 2

\* C15: in the patient path the monitor-data call never ends the attempt in
\* failure; when it fails with any error, or answers without a BLE-class
\* device family and with fewer than two top-level fields, the attempt goes
\* on, with no rotation, backoff or sleep, to a connect-data request that
\* carries no parameters.
C15_MonitorFallsBackToLegacy ==
    [][ /\ (pc = "monitor" /\ pc' # pc) =>
              /\ pc' \in {"settings", "connect", "done"}
              /\ pc' = "done" => result'.kind = "data"
              /\ lastErr' = lastErr
              /\ <<attempts, backoffs, tryNextCalls, retryCount, currentIndex,
                    httpsAgent, sleepSecs, i>>'
                    = <<attempts, backoffs, tryNextCalls, retryCount,
                        currentIndex, httpsAgent, sleepSecs, i>>
              /\ HeardFrom("monitorData", calls', heard')
              /\ (\/ ~heard'.ok
                  \/ ~TaggedBle(heard') /\ FewerThanTwoFields(heard'))
                    => pc' = "connect"
        /\ (pc = "connect" /\ pc' # pc) =>
              calls' = Append(calls, Req("connectData", NoParams)) ]_vars

C15_Witness ==
    /\ pc = "connect"
    /\ Len(proxies) > 0
    /\ ~heard.ok
    /\ heard.err = ErrHttp(403)
    /\ lastErr = NoErr
    /\ tryNextCalls = 0
    /\ backoffs = 0

\* C16: the process exits only from the startup login step, when there is no
\* credential file and the login fails; once fetch() has settled, whatever
\* it, transform() and the uploads did, the loop reaches its sleep, and after
\* the sleep it calls fetch() again, which settles in its turn.
C16_LoopNeverEnds ==
    /\ [][ /\ pc' = "exited" =>
                 \/ pc = "exited"
                 \/ pc = "boot" /\ logindata = "absent"
           /\ (pc = "done" /\ pc' # pc) => pc' \in {"entries", "interval"}
           /\ (pc = "entries" /\ pc' # pc) => pc' = "devicestatus"
           /\ (pc = "devicestatus" /\ pc' # pc) => pc' = "interval"
           /\ (pc = "interval" /\ pc' # pc) => pc' = "idle"
           /\ (pc = "idle" /\ pc' # pc) => pc' = "done" ]_vars
    /\ [](pc = "done" => <>(pc = "interval"))
    /\ [](pc = "interval" => <>(pc = "done"))

\* a fetch() has settled in a cycle that follows a failed upload
C16_Witness ==
    /\ pc = "done"
    /\ result.kind = "error"
    /\ failed["entries"] # {}
    /\ failed["devicestatus"] # {}

\* where the worker is while a fetch() call is in progress
FetchPcs ==
    {"auth", "refresh", "me", "linked", "connectCP", "monitor", "connect",
     "settings", "bleMe", "blePost", "sleep"}

\* C17: the program has one thread of control, and it enters fetch() only
\* from the top of the loop, which it reaches only from startup or from the
\* end of the interval sleep; the sleep follows the settled fetch() and, when
\* there was something to upload, the two uploads in turn.  Inside fetch()
\* attempt 1 starts with the call and attempt n + 1 only when the pause that
\* followed the failure of attempt n is over.
C17_OneFetchAtATime ==
    [][ /\ (pc \notin FetchPcs /\ pc' \in FetchPcs) =>
              /\ pc = "idle"
              /\ pc' = "auth"
              /\ attempts' = 1
        /\ (pc' = "idle" /\ pc # pc') => pc \in {"interval", "boot"}
        /\ (pc' = "interval" /\ pc # pc') => pc \in {"done", "devicestatus"}
        /\ (pc' = "devicestatus" /\ pc # pc') => pc = "entries"
        /\ (pc' = "entries" /\ pc # pc') => pc = "done"
        /\ (pc' = "done" /\ pc # pc') => pc \in FetchPcs
        /\ (pc' = "auth" /\ pc # pc') => pc \in {"idle", "sleep"}
        /\ (pc' = "sleep" /\ pc # pc') =>
              /\ pc \in FetchPcs
              /\ lastErr = NoErr
              /\ lastErr' # NoErr
              /\ sleepSecs' > 0
        /\ attempts' # attempts =>
              \/ attempts' = attempts + 1 /\ pc = "sleep" /\ pc' = "auth"
              \/ attempts' = 1 /\ pc = "idle"
              \/ attempts' = 0 /\ pc = "done" ]_vars

\* the second attempt of a fetch() of a later cycle: the proxy installed was
\* rotated in, and not by this fetch()
C17_Witness ==
    /\ pc = "auth"
    /\ attempts = 2
    /\ backoffs = 1
    /\ tryNextCalls = 0
    /\ Len(proxies) = 2
    /\ httpsAgent = 2

\* the keys of the records that the filter call of this cycle withheld
SuppressedSgvs == Range(SgvKeys(entries)) \ Range(SgvKeys(newSgvs))
SuppressedDeviceStatuses ==
    Range(DeviceStatusKeys(devicestatus))
        \ Range(DeviceStatusKeys(newDeviceStatuses))

\* C18: every record a filter withholds in the poll loop has been delivered
\* by an earlier upload, so that a record whose upload failed, when a later
\* snapshot has it again, is handed to uploadIfNew() again.
C18_SuppressedWereDelivered ==
    /\ SuppressedSgvs \subseteq delivered["entries"]
    /\ SuppressedDeviceStatuses \subseteq delivered["devicestatus"]
    /\ failed["entries"] \cap SuppressedSgvs = {}
    /\ failed["devicestatus"] \cap SuppressedDeviceStatuses = {}

\* the indices of the items whose key is above the watermark w
AboveAt(keys, w) == { k \in DOMAIN keys : keys[k] > w }

\* the j-th smallest index of the set idx
NthOf(idx, j) == CHOOSE k \in idx : Cardinality({ m \in idx : m <= k }) = j

\* out is items without the items whose key is not above w, order kept
IsNewerPart(out, items, keys, w) ==
    /\ Len(out) = Cardinality(AboveAt(keys, w))
    /\ \A j \in 1..Len(out) : out[j] = items[NthOf(AboveAt(keys, w), j)]

\* C19: a filter call returns the items of its input whose key is strictly
\* above the watermark the call found, all of them and in their order in the
\* input; no returned item has a key equal to that watermark.
C19_ReturnsStrictlyNewerInOrder ==
    [][ /\ IsNewerPart(newSgvs', entries', SgvKeys(entries'), sgvWatermark)
        /\ IsNewerPart(newDeviceStatuses', devicestatus',
                       DeviceStatusKeys(devicestatus'), statusWatermark)
        /\ sgvWatermark \notin Range(SgvKeys(newSgvs'))
        /\ statusWatermark \notin Range(DeviceStatusKeys(newDeviceStatuses')) ]_vars

\* a call that found the watermark 2 and was handed the keys 2, 3, 1
C19_Witness ==
    /\ entries = <<Sgv(2), Sgv(3), Sgv(1)>>
    /\ newSgvs = <<Sgv(3)>>
    /\ devicestatus = <<DeviceStatus(2), DeviceStatus(3), DeviceStatus(1)>>
    /\ newDeviceStatuses = <<DeviceStatus(3)>>

\* the greatest of a non-empty set of numbers
Greatest(S) == CHOOSE m \in S : \A x \in S : x <= m

\* C20: a filter call leaves the watermark at the greater of the watermark it
\* found and the greatest key of its input, so the watermark never decreases;
\* a call with an empty input returns nothing and leaves the watermark alone.
C20_WatermarkIsRunningMaximum ==
    [][ /\ sgvWatermark' = Greatest({sgvWatermark} \cup Range(SgvKeys(entries')))
        /\ statusWatermark' =
             Greatest({statusWatermark} \cup Range(DeviceStatusKeys(devicestatus')))
        /\ sgvWatermark' >= sgvWatermark
        /\ statusWatermark' >= statusWatermark
        /\ entries' = <<>> =>
             newSgvs' = <<>> /\ sgvWatermark' = sgvWatermark
        /\ devicestatus' = <<>> =>
             newDeviceStatuses' = <<>> /\ statusWatermark' = statusWatermark ]_vars

\* a call whose greatest key was not the last one of its input
C20_Witness ==
    /\ entries = <<Sgv(1), Sgv(3), Sgv(2)>>
    /\ newSgvs = <<Sgv(3), Sgv(2)>>
    /\ sgvWatermark = 3
    /\ statusWatermark = 3

\* a step in which the client removes logindata.json
Unlinks == logindata # "absent" /\ logindata' = "absent"

\* C21: the client removes logindata.json only when the server rejected the
\* refresh exchange; a refresh that failed on the network or through a
\* proxy, or a refreshed bundle that could not be saved, leaves the file.
C21_DeletedOnlyOnRejection ==
    [][ Unlinks => refreshed' = "rejected" ]_vars

\* the place of proxy p in the list
PlaceOf(p) == CHOOSE k \in DOMAIN proxies : proxies[k] = p

\* h, the returns of consecutive getNext() calls, goes round the list
GoesRound(h) ==
    /\ \A k \in DOMAIN h : h[k] \in Range(proxies)
    /\ \A k \in 1..(Len(h) - 1) :
         PlaceOf(h[k + 1]) = (PlaceOf(h[k]) % Len(proxies)) + 1
    /\ \A k \in 1..(Len(h) - Len(proxies) + 1) :
         { h[m] : m \in k..(k + Len(proxies) - 1) } = Range(proxies)

\* C22: with n >= 1 proxies getNext() hands them out in list order, going
\* round, so that any n consecutive calls return every proxy once; with an
\* empty list it returns none and leaves the rotator as it was.
C22_GetNextGoesRound ==
    [][ IF Len(proxies) = 0
        THEN /\ handed' = Append(handed, 0)
             /\ currentIndex' = currentIndex
             /\ proxies' = proxies
        ELSE /\ handed'[Len(handed')] = proxies[currentIndex + 1]
             /\ GoesRound(handed') ]_vars

\* three proxies, the index started at the second, seven calls made
C22_Witness ==
    /\ Len(proxies) = 3
    /\ handed = <<2, 3, 1, 2, 3, 1, 2>>

\* a step that enters fetch()
EntersFetch == pc = "idle" /\ pc' = "auth"

\* a step in which the rotator hands out its first proxy of this fetch()
FirstRotation == handed = <<>> /\ Len(handed') = 1 /\ handed'[1] # 0

\* C23: entering fetch() zeroes the consumed-retry counter and leaves the
\* rotation index alone, so the first proxy rotation hands out in a fetch()
\* is the one after (going round) the last proxy handed out before it.
C23_RotationResumes ==
    [][ /\ EntersFetch => retryCount' = 0 /\ currentIndex' = currentIndex
        /\ FirstRotation =>
             /\ handedBefore # 0
             /\ PlaceOf(handed'[1]) = (PlaceOf(handedBefore) % Len(proxies)) + 1 ]_vars

\* a fetch() whose first rotation handed out the second proxy of the list,
\* the first one having been the last handed out before
C23_Witness ==
    /\ Len(proxies) = 2
    /\ handedBefore = 1
    /\ handed = <<2>>
    /\ retryCount = 1
    /\ pc = "sleep"

\* how many of the returns h of the rotator are proxies
Handouts(h) == Cardinality({ k \in DOMAIN h : h[k] # 0 })

\* a step in which the catch block of fetch() calls tryNext()
CallsTryNext == tryNextCalls' = tryNextCalls + 1

\* C24: in one fetch() tryNext() hands out at most the configured number of
\* proxies; once it has, every further tryNext() of that fetch() returns
\* none, and only the resetRetries() at the start of a fetch() gives the
\* budget back.
C24_RotationBudget ==
    [][ /\ Handouts(handed') <= MaxRotations
        /\ retryCount' = Handouts(handed')
        /\ (CallsTryNext /\ Handouts(handed) >= MaxRotations) =>
              handed' = Append(handed, 0)
        /\ (CallsTryNext /\ Handouts(handed) < MaxRotations) =>
              /\ Len(handed') = Len(handed) + 1
              /\ handed'[Len(handed')] # 0
        /\ retryCount' < retryCount => EntersFetch ]_vars

\* the budget is spent and the next tryNext() of the fetch() returned none
C24_Witness ==
    /\ Handouts(handed) = MaxRotations
    /\ Len(handed) = MaxRotations + 1
    /\ handed[MaxRotations + 1] = 0
    /\ retryCount = MaxRotations

\* C25: the backoff sleep that follows a failure which is neither proxy- nor
\* network-class lasts 2^k seconds, k counting the failures of that kind in
\* this fetch() so far (2 s after the first), whatever the number of proxy
\* rotations made before it.
C25_BackoffIgnoresRotations ==
    (pc = "sleep" /\ ~RotationClass(lastErr)) => sleepSecs = 2 ^ backoffs

\* a step of the worker (not of the world outside) that changes logindata.json
ClientWrites == logindata' # logindata /\ pc' # pc /\ pc # "boot"

\* C26: the refresh exchange is made only by an attempt that loaded an
\* expired access token; an attempt that loaded a valid one makes no refresh
\* and neither writes nor deletes logindata.json; a successful refresh is
\* saved to logindata.json before any portal request of the attempt is sent.
C26_RefreshOnlyWhenExpired ==
    [][ /\ (pc = "auth" /\ pc' = "refresh") => isTokenExpired(logindata)
        /\ (pc # "refresh" /\ pc' = "refresh") => pc = "auth"
        /\ refreshed' # refreshed =>
              \/ pc = "refresh"
              \/ refreshed' = "none"
        /\ (pc = "auth" /\ logindata = "valid") =>
              /\ pc' \in {"auth", "me"}
              /\ refreshed' = "none"
              /\ pc' = "me" => logindata' = logindata
        /\ ClientWrites => pc = "refresh" /\ refreshed' # "none"
        /\ (pc = "refresh" /\ refreshed' = "ok") =>
              /\ logindata' = "valid"
              /\ calls' = <<>>
              /\ requestCount' = 0
              /\ pc' = "me" ]_vars

\* an attempt that refreshed, saved, and has since sent portal requests
C26_Witness ==
    /\ refreshed = "ok"
    /\ logindata = "valid"
    /\ Len(calls) >= 2

\* the pcs of getConnectData() and of what it calls
RequestPcs ==
    {"me", "linked", "connectCP", "monitor", "connect", "settings", "bleMe",
     "blePost"}

\* the role string getCurrentRole() makes of the identity answer r
RoleHeard(r) ==
    IF r.data = NoData THEN <<>> ELSE toUpperCase(r.data.role)

\* C27: in every attempt authenticate() has returned before a portal request
\* is sent, and the first request of the attempt is the identity call; the
\* data path is chosen by the role in the answer to that very call, never by
\* a role of an earlier attempt or fetch().
C27_AuthenticateThenIdentity ==
    [][ /\ (pc # "me" /\ pc' = "me") =>
              /\ \/ pc = "auth" /\ logindata = "valid"
                 \/ pc = "refresh" /\ refreshed' = "ok"
              /\ authorization' = "bearer"
              /\ calls' = <<>>
        /\ (pc' \in RequestPcs /\ pc \notin RequestPcs) => pc' = "me"
        /\ calls' # calls =>
              \/ calls' = <<>>
              \/ pc \in RequestPcs /\ calls' = Append(calls, calls'[Len(calls')])
        /\ calls' # <<>> => calls'[1] = Req("me", NoParams)
        /\ (pc' \in {"linked", "monitor"} /\ pc' # pc) =>
              /\ pc = "me"
              /\ HeardFrom("me", calls', heard')
              /\ Len(calls') = 1
              /\ role' = RoleHeard(heard')
              /\ pc' = "linked" <=>
                   role' \in {S_CARE_PARTNER, S_CARE_PARTNER_OUS} ]_vars

\* the second attempt of a fetch() takes the patient path on its own identity
\* answer, the first attempt having heard a care partner
C27_Witness ==
    /\ attempts = 2
    /\ pc = "monitor"
    /\ role = S_PATIENT
    /\ lastErr = NoErr
    /\ onlyErr = ErrNoLinkedPatients

\* C28: once the client has deleted logindata.json, an attempt that finds it
\* missing sends nothing and fails with the missing-credentials error, and a
\* fetch() that ends with the file still missing raises that error; the
\* file comes back only from outside, ensureLogin() runs only at startup, and
\* the loop goes on to its sleep after the failed fetch().
C28_NoLoginAfterStartup ==
    [][ /\ (pc = "auth" /\ logindata = "absent" /\ pc' # pc) =>
              /\ lastErr' = ErrNoLoginData
              /\ calls' = <<>>
              /\ pc' \in {"sleep", "done"}
              /\ pc' = "done" => result' = Thrown(ErrNoLoginData)
              /\ logindata' = "absent"
        /\ (pc' = "done" /\ logindata' = "absent" /\ onlyErr' = ErrNoLoginData) =>
              result' = Thrown(ErrNoLoginData)
        /\ (logindata = "absent" /\ logindata' # "absent") =>
              pc' = pc \/ pc = "boot"
        /\ pc' = "boot" => pc = "boot"
        /\ pc' = "exited" => pc \in {"boot", "exited"}
        /\ (pc = "done" /\ result.kind = "error" /\ pc' # pc) =>
              pc' = "interval"
        /\ (pc = "interval" /\ pc' # pc) => pc' = "idle"
        /\ (pc = "idle" /\ pc' # pc) => pc' = "auth" ]_vars

\* without proxies, a fetch() that found the file missing from its start
C28_Witness ==
    /\ pc = "done"
    /\ maxRetry = 1
    /\ attempts = 1
    /\ logindata = "absent"
    /\ result = Thrown(ErrNoLoginData)

\* fetch() has returned a payload without the freshness marker, or none
ReturnedUnmarked ==
    /\ pc = "done"
    /\ result.kind = "data"
    /\ result.data = NoData \/ ~result.data.marker

\* C29: a cycle whose fetch() returned a snapshot without the freshness
\* marker (an empty or absent payload included) goes straight to the interval
\* sleep: nothing is transformed, filtered or uploaded, and both watermarks
\* stay as they were until the next cycle.
C29_UnmarkedSnapshotSkipped ==
    [][ /\ (ReturnedUnmarked /\ pc' # pc) =>
              /\ pc' = "interval"
              /\ handled' = "warned"
              /\ entries' = <<>> /\ devicestatus' = <<>>
              /\ newSgvs' = <<>> /\ newDeviceStatuses' = <<>>
              /\ sgvWatermark' = sgvWatermark
              /\ statusWatermark' = statusWatermark
              /\ delivered' = delivered /\ failed' = failed
        /\ (handled = "warned" /\ pc' # pc) =>
              /\ pc = "interval" /\ pc' = "idle"
              /\ sgvWatermark' = sgvWatermark
              /\ statusWatermark' = statusWatermark
              /\ delivered' = delivered /\ failed' = failed
        /\ handled' = "warned" => entries' = <<>> /\ newSgvs' = <<>> ]_vars

\* a cycle skipped although the portal held readings above the watermark
C29_Witness ==
    /\ handled = "warned"
    /\ pc = "interval"
    /\ sgvWatermark > 0
    /\ latest > sgvWatermark
    /\ statusWatermark = sgvWatermark

\* C30: every fetch() ends, with a snapshot returned or an error raised,
\* after at most maxRetry attempts and as many sleeps, when every outbound
\* call and every sleep completes.
C30_FetchTerminates ==
    /\ [](attempts <= MaxRetryWithProxies
            /\ backoffs + tryNextCalls <= MaxRetryWithProxies)
    /\ [](pc \in FetchPcs => <>(pc = "done" /\ result.kind \in {"data", "error"}))

\* a fetch() that ended after its tenth attempt
C30_Witness ==
    /\ pc = "done"
    /\ attempts = MaxRetryWithProxies
    /\ backoffs + tryNextCalls = MaxRetryWithProxies
    /\ result.kind = "error"

\* C31: without proxies a fetch() makes one attempt and never sleeps: the
\* attempt's failure, proxy- and network-class ones included, is raised as
\* it was caught, with no rotation and no backoff.
C31_NoProxiesOneAttempt ==
    (Len(proxies) = 0 /\ pc \in FetchPcs \cup {"done"}) =>
        /\ maxRetry = 1
        /\ attempts = 1
        /\ i = 1
        /\ pc # "sleep"
        /\ backoffs = 0
        /\ tryNextCalls = 0
        /\ sleepSecs = 0
        /\ httpsAgent = 0
        /\ lastErr # NoErr => pc = "done" /\ result = Thrown(lastErr)

\* without proxies, a fetch() ended by a connection reset on its first call
C31_Witness ==
    /\ Len(proxies) = 0
    /\ pc = "done"
    /\ result = Thrown(ErrNet("ECONNRESET"))
    /\ calls = <<Req("me", NoParams)>>

\* C32: the proxy installed on the HTTP client changes only in the step in
\* which an attempt fails with a proxy- or network-class error and tryNext()
\* returns a proxy, which is then the one installed; entering fetch() leaves
\* it alone, so a fetch() starts with the proxy the one before left.
C32_InstalledProxyChangesOnRotation ==
    [][ /\ httpsAgent' # httpsAgent =>
              /\ FailStep
              /\ RotationClass(lastErr')
              /\ CallsTryNext
              /\ handed' = Append(handed, httpsAgent')
              /\ httpsAgent' # 0
        /\ (~FailStep \/ ~RotationClass(lastErr')) => httpsAgent' = httpsAgent
        /\ EntersFetch => httpsAgent' = httpsAgent
        /\ (pc = "auth" /\ attempts = 1 /\ handedBefore # 0) =>
              httpsAgent = handedBefore ]_vars

\* a fetch() starts on the second proxy, which an earlier fetch() installed
C32_Witness ==
    /\ pc = "auth"
    /\ attempts = 1
    /\ handed = <<>>
    /\ handedBefore = 2
    /\ httpsAgent = 2

====
